---- MODULE Spec2Model ----
(***************************************************************************)
(* A model of the type inference engine of src/main.rs: Expr::infer walks  *)
(* an expression tree with an explicit frame stack (one frame per active   *)
(* call of infer), mutating a Context (fresh-variable counter and scope    *)
(* stack).  Type::unify and Type::subst are recursive operators.           *)
(***************************************************************************)
EXTENDS Integers, Sequences, FiniteSets, TLC

VARIABLES expr, flags, vars, scopes, stack, minted, instLog, nschemes, fatal, uni

vars_all == <<expr, flags, vars, scopes, stack, minted, instLog, nschemes, fatal, uni>>

(***************************************************************************)
(* Bounds of the model.                                                    *)
(***************************************************************************)
\* generated expression trees have at most MaxNodes nodes
MaxNodes == 5
\* the argument a of the trees let id = x -> x; id a has at most MaxArgNodes nodes
MaxArgNodes == 3
\* let id = x -> x; id id is put under at most MaxFnChain enclosing Fn binders
MaxFnChain == 2
\* generated types (inputs of unify) have at most MaxTypeDepth nested Fn
MaxTypeDepth == 1
\* generated types use the variables 0 .. MaxTypeVar
MaxTypeVar == 2

(***************************************************************************)
(* Expr (main.rs:32-37) and Type (main.rs:42-45) as tagged tuples.         *)
(***************************************************************************)
Id(n) == <<"Id", n>>
Fn(x, body) == <<"Fn", x, body>>
Let(key, params, value, body) == <<"Let", key, params, value, body>>
Call(f, x) == <<"Call", f, x>>

Var(v) == <<"Var", v>>
FnT(p, r) == <<"Fn", p, r>>
NoType == <<"None">>

\* Result<Type, Error>
Ok(ty) == [tag |-> "Ok", ty |-> ty, err |-> "None"]
Err(e) == [tag |-> "Err", ty |-> NoType, err |-> e]
NoResult == [tag |-> "None", ty |-> NoType, err |-> "None"]

\* Flags::all / Flags::none
FlagsAll == [polymorphic_let |-> TRUE]
FlagsNone == [polymorphic_let |-> FALSE]

(***************************************************************************)
(* HashMap::insert on a map modelled as a function.                        *)
(***************************************************************************)
MapInsert(m, key, val) ==
    [x \in (DOMAIN m) \cup {key} |-> IF x = key THEN val ELSE m[x]]

EmptyMap == <<>>

(***************************************************************************)
(* Type::unify (main.rs:114-132): the unifier is extended in place; the    *)
(* result is the Ok/Err flag and the unifier as left behind.               *)
(***************************************************************************)
RECURSIVE Unify(_, _, _)
Unify_NoBind(self, other, unifier) ==
    IF self[1] = "Var" THEN [ok |-> TRUE, u |-> unifier]
    ELSE IF other[1] = "Fn"
         THEN LET r1 == Unify(self[2], other[2], unifier)
              IN  IF r1.ok THEN Unify(self[3], other[3], r1.u) ELSE r1
         ELSE [ok |-> FALSE, u |-> unifier]

Unify(self, other, unifier) ==
    IF self[1] = "Var"
    THEN IF other[1] = "Var" /\ self[2] = other[2]
         THEN [ok |-> TRUE, u |-> unifier]
         ELSE [ok |-> TRUE, u |-> MapInsert(unifier, self[2], other)]
    ELSE IF other[1] = "Fn"
         THEN LET r1 == Unify(self[2], other[2], unifier)
              IN  IF r1.ok THEN Unify(self[3], other[3], r1.u) ELSE r1
         ELSE [ok |-> FALSE, u |-> unifier]

(***************************************************************************)
(* Type::subst (main.rs:134-146): one pass, the replacement is not         *)
(* substituted again.                                                      *)
(***************************************************************************)
RECURSIVE Subst(_, _)
Subst_Identity(ty, unifier) == ty

Subst(ty, unifier) ==
    IF ty[1] = "Var"
    THEN IF ty[2] \in DOMAIN unifier THEN unifier[ty[2]] ELSE ty
    ELSE FnT(Subst(ty[2], unifier), Subst(ty[3], unifier))

(***************************************************************************)
(* Scheme (main.rs:48-51).  sid is a ghost serial number naming the stored *)
(* scheme; the code never reads it.                                        *)
(***************************************************************************)
Scheme(bounds, ty, sid) == [bounds |-> bounds, ty |-> ty, sid |-> sid]

\* Scheme::from (main.rs:150-155)
SchemeFrom_Generalized(ty, sid) == Scheme(<<ty[2]>>, ty, sid)

SchemeFrom(ty, sid) == Scheme(<<>>, ty, sid)

(***************************************************************************)
(* Context (main.rs:158-218).                                              *)
(***************************************************************************)
\* Context::enter
Enter_NoPush(sc) == sc

Enter(sc) == Append(sc, EmptyMap)

\* Context::exit: pops the innermost scope (fatal when there is none)
Exit_NoPop(sc) == sc

Exit(sc) == IF Len(sc) = 0 THEN sc ELSE SubSeq(sc, 1, Len(sc) - 1)

\* Context::insert: into the innermost scope (fatal when there is none)
Insert(sc, id, scheme) ==
    IF Len(sc) = 0 THEN sc
    ELSE [sc EXCEPT ![Len(sc)] = MapInsert(sc[Len(sc)], id, scheme)]

\* the scan of Context::get (main.rs:200-206): innermost scope first
Lookup_OutermostFirst(sc, id) ==
    LET hits == {i \in 1..Len(sc) : id \in DOMAIN sc[i]}
    IN  IF hits = {} THEN [found |-> FALSE, scheme |-> Scheme(<<>>, NoType, 0)]
        ELSE LET i == CHOOSE j \in hits : \A h \in hits : j <= h
             IN  [found |-> TRUE, scheme |-> sc[i][id]]

Lookup(sc, id) ==
    LET hits == {i \in 1..Len(sc) : id \in DOMAIN sc[i]}
    IN  IF hits = {} THEN [found |-> FALSE, scheme |-> Scheme(<<>>, NoType, 0)]
        ELSE LET i == CHOOSE j \in hits : \A h \in hits : h <= j
             IN  [found |-> TRUE, scheme |-> sc[i][id]]

\* Context::instantiate (main.rs:188-197): one fresh() per bound, in order
RECURSIVE InstUnifier(_, _, _, _)
InstUnifier(bounds, i, v, unifier) ==
    IF i > Len(bounds) THEN unifier
    ELSE InstUnifier(bounds, i + 1, v + 1, MapInsert(unifier, bounds[i], Var(v)))

Instantiate(scheme, v) ==
    [ty |-> Subst(scheme.ty, InstUnifier(scheme.bounds, 1, v, EmptyMap)),
     vars |-> v + Len(scheme.bounds),
     minted |-> [i \in 1..Len(scheme.bounds) |-> v + i - 1]]

\* Context::fresh (main.rs:182-186)
Fresh_NoAdvance(v) == [out |-> v, vars |-> v]

Fresh(v) == [out |-> v, vars |-> v + 1]

\* the loop over params of the Let arm (main.rs:72-77): fresh, push, insert
RECURSIVE BindParams(_, _, _, _, _)
BindParams(sc, params, i, v, sid) ==
    IF i > Len(params) THEN sc
    ELSE LET f == Fresh(v)
         IN  BindParams(Insert(sc, params[i], SchemeFrom(Var(f.out), sid + 1)),
                        params, i + 1, f.vars, sid + 1)

(***************************************************************************)
(* The expression trees inference is run on: every tree of at most         *)
(* MaxNodes nodes over GenNames and ParamLists, and the trees of the       *)
(* repository's tests and driver.                                          *)
(***************************************************************************)
GenNames == {"x", "id"}
ParamLists == {<<>>, <<"x">>, <<"id", "x">>}

RECURSIVE TreesOfSize(_)
TreesOfSize(n) ==
    IF n <= 1 THEN {Id(x) : x \in GenNames}
    ELSE {Fn(x, b) : x \in GenNames, b \in TreesOfSize(n - 1)}
         \cup UNION {{Let(k, ps, v, b) : k \in GenNames, ps \in ParamLists,
                                         v \in TreesOfSize(i),
                                         b \in TreesOfSize(n - 1 - i)}
                     : i \in 1..(n - 2)}
         \cup UNION {{Call(f, x) : f \in TreesOfSize(i),
                                   x \in TreesOfSize(n - 1 - i)}
                     : i \in 1..(n - 2)}

GenTrees == UNION {TreesOfSize(n) : n \in 1..MaxNodes}

\* x -> x
IdentFn == Fn("x", Id("x"))
\* test_undefined1
TreeUndefined1 == Id("xyz")
\* test_undefined2 and main: y -> let id = x -> x; id x
TreeUndefined2 == Fn("y", Let("id", <<>>, IdentFn, Call(Id("id"), Id("x"))))
\* test_let: let id = x -> x; id
TreeLet == Let("id", <<>>, IdentFn, Id("id"))
\* let id = x -> x; id id
TreeIdId == Let("id", <<>>, IdentFn, Call(Id("id"), Id("id")))
\* test_identity_identity: y -> let id = x -> x; id id
TreeIdentityIdentity == Fn("y", TreeIdId)
\* test_identity_application: y -> let id = x -> x; id y
TreeIdentityApplication ==
    Fn("y", Let("id", <<>>, IdentFn, Call(Id("id"), Id("y"))))
\* test_polymorphic_id: let id = x -> x, first = x y -> x; first (id id) (id first)
TreePolymorphicId ==
    Let("id", <<>>, IdentFn,
        Let("first", <<>>, Fn("x", Fn("y", Id("x"))),
            Call(Call(Id("first"), Call(Id("id"), Id("id"))),
                 Call(Id("id"), Id("first")))))

TestTrees == {IdentFn, TreeUndefined1, TreeUndefined2, TreeLet, TreeIdId,
              TreeIdentityIdentity, TreeIdentityApplication, TreePolymorphicId}

\* the tree of test_identity_application with any argument a, alone and
\* under the enclosing y -> ...
ApplyId(a) == Let("id", <<>>, IdentFn, Call(Id("id"), a))
ArgTrees == UNION {TreesOfSize(n) : n \in 1..MaxArgNodes}
ApplyIdTrees == {ApplyId(a) : a \in ArgTrees} \cup {Fn("y", ApplyId(a)) : a \in ArgTrees}

\* the tree of test_identity_identity under chains of enclosing Fn binders
ChainNames == {"y", "x", "id"}
RECURSIVE FnChains(_, _)
FnChains(e, n) ==
    IF n <= 0 THEN {e}
    ELSE LET s == FnChains(e, n - 1)
         IN  s \cup {Fn(p, b) : p \in ChainNames, b \in s}
IdIdChains == FnChains(TreeIdId, MaxFnChain)

Trees == GenTrees \cup TestTrees \cup ApplyIdTrees \cup IdIdChains

AllNames == GenNames \cup {"y", "xyz", "first"}

(***************************************************************************)
(* One frame per active call of Expr::infer (main.rs:63-110): the node,    *)
(* the position in its arm, the arm's locals (prev_vars, bounds, ty of the *)
(* Let arm; k of the Fn arm; f_ty, x_ty, unifier of the Call arm), the     *)
(* value returned, and ghost snapshots of the context on entry.            *)
(***************************************************************************)
NewFrame(e, sc, v) ==
    [e |-> e, pc |-> "start", prev_vars |-> 0, bounds |-> <<>>, ty |-> NoType,
     k |-> 0, f_ty |-> NoType, x_ty |-> NoType, unifier |-> EmptyMap,
     result |-> NoResult, scopes0 |-> sc, vars0 |-> v]

Top == stack[Len(stack)]
Parent == stack[Len(stack) - 1]

\* the running call reaches its return with result r
Return(r) == [stack EXCEPT ![Len(stack)].pc = "ret", ![Len(stack)].result = r]

\* the callee on top has returned: the caller resumes as frame f
Resume(f) == Append(SubSeq(stack, 1, Len(stack) - 2), f)

Running == ~fatal /\ Len(stack) >= 1 /\ Top.pc = "start"
Returned(kind, pc) ==
    /\ ~fatal
    /\ Len(stack) >= 2
    /\ Top.pc = "ret"
    /\ Parent.e[1] = kind
    /\ Parent.pc = pc

Done == Len(stack) = 1 /\ stack[1].pc = "ret"

UniIdle == [pc |-> "idle", t1 |-> NoType, t2 |-> NoType, ok |-> FALSE,
            u |-> EmptyMap, s1 |-> NoType, s2 |-> NoType]

\* Context::new() (main.rs:159-164) and the call of infer on the whole tree
Init ==
    /\ expr \in Trees
    /\ flags \in {FlagsAll, FlagsNone}
    /\ vars = 0
    /\ scopes = <<>>
    /\ stack = <<NewFrame(expr, <<>>, 0)>>
    /\ minted = <<>>
    /\ instLog = <<>>
    /\ nschemes = 0
    /\ fatal = FALSE
    /\ uni = UniIdle

(***************************************************************************)
(* Id arm (main.rs:65) with Context::get (main.rs:199-213).                *)
(***************************************************************************)
InferId ==
    /\ Running
    /\ Top.e[1] = "Id"
    /\ LET hit == Lookup(scopes, Top.e[2])
           inst == Instantiate(hit.scheme, vars)
       IN  IF hit.found
           THEN /\ vars' = inst.vars
                /\ minted' = minted \o inst.minted
                /\ instLog' = Append(instLog, [sid |-> hit.scheme.sid,
                                               id |-> Top.e[2],
                                               minted |-> inst.minted,
                                               ty |-> inst.ty])
                /\ stack' = Return(Ok(inst.ty))
           ELSE /\ stack' = Return(Err("Undefined"))
                /\ UNCHANGED <<vars, minted, instLog>>
    /\ UNCHANGED <<expr, flags, scopes, nschemes, fatal, uni>>

(***************************************************************************)
(* Fn arm (main.rs:89-96).                                                 *)
(***************************************************************************)
FnEnter ==
    /\ Running
    /\ Top.e[1] = "Fn"
    /\ LET sc1 == Enter(scopes)
           f == Fresh(vars)
           sc2 == Insert(sc1, Top.e[2], SchemeFrom(Var(f.out), nschemes + 1))
       IN  /\ scopes' = sc2
           /\ vars' = f.vars
           /\ minted' = Append(minted, f.out)
           /\ nschemes' = nschemes + 1
           /\ fatal' = (Len(sc1) = 0)
           /\ stack' = Append([stack EXCEPT ![Len(stack)].pc = "body",
                                            ![Len(stack)].k = f.out],
                              NewFrame(Top.e[3], sc2, f.vars))
    /\ UNCHANGED <<expr, flags, instLog, uni>>

FnBody ==
    /\ Returned("Fn", "body")
    /\ IF Top.result.tag = "Err"
       THEN \* the ? of main.rs:93 returns before context.exit()
            /\ stack' = Resume([Parent EXCEPT !.pc = "ret", !.result = Top.result])
            /\ UNCHANGED <<scopes, fatal>>
       ELSE /\ fatal' = (Len(scopes) = 0)
            /\ scopes' = Exit(scopes)
            /\ stack' = Resume([Parent EXCEPT
                                  !.pc = "ret",
                                  !.result = Ok(FnT(Var(Parent.k), Top.result.ty))])
    /\ UNCHANGED <<expr, flags, vars, minted, instLog, nschemes, uni>>

(***************************************************************************)
(* Let arm (main.rs:66-88).  flags is passed along and never read.         *)
(***************************************************************************)
\* a Let that binds key before its value is inferred (a recursive let)
LetEnter_Recursive ==
    /\ Running
    /\ Top.e[1] = "Let"
    /\ LET params == Top.e[3]
           sc1 == Insert(Enter(scopes), Top.e[2],
                         SchemeFrom(Var(vars + Len(params)), nschemes + Len(params) + 1))
           sc3 == BindParams(Enter(sc1), params, 1, vars, nschemes)
           v3 == vars + Len(params)
           bounds == [i \in 1..Len(params) |-> vars + i - 1]
       IN  /\ scopes' = sc3
           /\ vars' = v3
           /\ minted' = minted \o bounds
           /\ nschemes' = nschemes + Len(params) + 1
           /\ fatal' = FALSE
           /\ stack' = Append([stack EXCEPT ![Len(stack)].pc = "value",
                                            ![Len(stack)].prev_vars = vars,
                                            ![Len(stack)].bounds = bounds],
                              NewFrame(Top.e[4], sc3, v3))
    /\ UNCHANGED <<expr, flags, instLog, uni>>

\* main.rs:67-77: enter, prev_vars, enter, the loop over params; then the
\* call of value.infer
LetEnter ==
    /\ Running
    /\ Top.e[1] = "Let"
    /\ LET params == Top.e[3]
           sc1 == Enter(scopes)
           prev_vars == vars
           sc2 == Enter(sc1)
           sc3 == BindParams(sc2, params, 1, vars, nschemes)
           v3 == vars + Len(params)
           bounds == [i \in 1..Len(params) |-> vars + i - 1]
       IN  /\ scopes' = sc3
           /\ vars' = v3
           /\ minted' = minted \o bounds
           /\ nschemes' = nschemes + Len(params)
           /\ fatal' = (Len(params) > 0 /\ Len(sc2) = 0)
           /\ stack' = Append([stack EXCEPT ![Len(stack)].pc = "value",
                                            ![Len(stack)].prev_vars = prev_vars,
                                            ![Len(stack)].bounds = bounds],
                              NewFrame(Top.e[4], sc3, v3))
    /\ UNCHANGED <<expr, flags, instLog, uni>>

\* main.rs:78-85: value returned; exit, the scheme, the counter restored,
\* insert of key; then the call of body.infer
LetValue ==
    /\ Returned("Let", "value")
    /\ IF Top.result.tag = "Err"
       THEN \* the ? of main.rs:78 returns with both scopes still pushed
            /\ stack' = Resume([Parent EXCEPT !.pc = "ret", !.result = Top.result])
            /\ UNCHANGED <<scopes, vars, nschemes, fatal>>
       ELSE LET sc1 == Exit(scopes)
                out == Scheme(Parent.bounds, Top.result.ty, nschemes + 1)
                sc2 == Insert(sc1, Parent.e[2], out)
            IN  /\ fatal' = (Len(scopes) = 0 \/ Len(sc1) = 0)
                /\ scopes' = sc2
                /\ vars' = Parent.prev_vars
                /\ nschemes' = nschemes + 1
                /\ stack' = Append(Resume([Parent EXCEPT !.pc = "body",
                                                          !.ty = Top.result.ty]),
                                   NewFrame(Parent.e[5], sc2, Parent.prev_vars))
    /\ UNCHANGED <<expr, flags, minted, instLog, uni>>

\* main.rs:85-87: body returned (Ok or Err); exit; the result is body's
LetBody ==
    /\ Returned("Let", "body")
    /\ fatal' = (Len(scopes) = 0)
    /\ scopes' = Exit(scopes)
    /\ stack' = Resume([Parent EXCEPT !.pc = "ret", !.result = Top.result])
    /\ UNCHANGED <<expr, flags, vars, minted, instLog, nschemes, uni>>

(***************************************************************************)
(* Call arm (main.rs:97-108).                                              *)
(***************************************************************************)
\* main.rs:98: the call of f.infer
CallEnter ==
    /\ Running
    /\ Top.e[1] = "Call"
    /\ stack' = Append([stack EXCEPT ![Len(stack)].pc = "f"],
                       NewFrame(Top.e[2], scopes, vars))
    /\ UNCHANGED <<expr, flags, vars, scopes, minted, instLog, nschemes, fatal, uni>>

\* a Call that infers its argument before it looks at the callee's type
CallCallee_ArgFirst ==
    /\ Returned("Call", "f")
    /\ IF Top.result.tag = "Err"
       THEN stack' = Resume([Parent EXCEPT !.pc = "ret", !.result = Top.result])
       ELSE stack' = Append(Resume([Parent EXCEPT !.pc = "x",
                                                  !.f_ty = Top.result.ty]),
                            NewFrame(Parent.e[3], scopes, vars))
    /\ UNCHANGED <<expr, flags, vars, scopes, minted, instLog, nschemes, fatal, uni>>

\* main.rs:98-100, 105-107: f returned; Err is passed on, a type that is
\* not Fn gives ExpectedFn, a Fn type leads to the call of x.infer
CallCallee ==
    /\ Returned("Call", "f")
    /\ IF Top.result.tag = "Err"
       THEN stack' = Resume([Parent EXCEPT !.pc = "ret", !.result = Top.result])
       ELSE IF Top.result.ty[1] = "Fn"
            THEN stack' = Append(Resume([Parent EXCEPT !.pc = "x",
                                                       !.f_ty = Top.result.ty]),
                                 NewFrame(Parent.e[3], scopes, vars))
            ELSE stack' = Resume([Parent EXCEPT !.pc = "ret",
                                                !.result = Err("ExpectedFn")])
    /\ UNCHANGED <<expr, flags, vars, scopes, minted, instLog, nschemes, fatal, uni>>

\* a Call that also substitutes its unifier through the stored schemes
CallArg_SubstScopes ==
    /\ Returned("Call", "x")
    /\ IF Top.result.tag = "Err"
       THEN /\ stack' = Resume([Parent EXCEPT !.pc = "ret", !.result = Top.result])
            /\ UNCHANGED scopes
       ELSE LET r == Unify(Parent.f_ty[2], Top.result.ty, EmptyMap)
            IN  /\ stack' = Resume([Parent EXCEPT
                                      !.pc = "ret",
                                      !.x_ty = Top.result.ty,
                                      !.unifier = r.u,
                                      !.result = IF r.ok
                                                 THEN Ok(Subst(Parent.f_ty[3], r.u))
                                                 ELSE Err("Unification")])
                /\ scopes' = [l \in DOMAIN scopes |->
                                 [n \in DOMAIN scopes[l] |->
                                    [scopes[l][n] EXCEPT !.ty = Subst(@, r.u)]]]
    /\ UNCHANGED <<expr, flags, vars, minted, instLog, nschemes, fatal, uni>>

\* main.rs:100-104: x returned; a new unifier, unify, subst of the body type
CallArg ==
    /\ Returned("Call", "x")
    /\ IF Top.result.tag = "Err"
       THEN stack' = Resume([Parent EXCEPT !.pc = "ret", !.result = Top.result])
       ELSE LET param_ty == Parent.f_ty[2]
                body_ty == Parent.f_ty[3]
                r == Unify(param_ty, Top.result.ty, EmptyMap)
            IN  IF r.ok
                THEN stack' = Resume([Parent EXCEPT
                                        !.pc = "ret",
                                        !.x_ty = Top.result.ty,
                                        !.unifier = r.u,
                                        !.result = Ok(Subst(body_ty, r.u))])
                ELSE stack' = Resume([Parent EXCEPT
                                        !.pc = "ret",
                                        !.x_ty = Top.result.ty,
                                        !.unifier = r.u,
                                        !.result = Err("Unification")])
    /\ UNCHANGED <<expr, flags, vars, scopes, minted, instLog, nschemes, fatal, uni>>

Next ==
    \/ InferId
    \/ FnEnter
    \/ FnBody
    \/ LetEnter
    \/ LetValue
    \/ LetBody
    \/ CallEnter
    \/ CallCallee
    \/ CallArg

Spec == Init /\ [][Next]_vars_all

(***************************************************************************)
(* Type::unify and Type::subst on their own: t1.unify(t2, u) with u empty, *)
(* then subst(u) on t1 and on t2, for every pair of types of at most       *)
(* MaxTypeDepth nested Fn over the variables 0..MaxTypeVar.                *)
(***************************************************************************)
RECURSIVE TypesOfDepth(_)
TypesOfDepth(d) ==
    IF d <= 0 THEN {Var(v) : v \in 0..MaxTypeVar}
    ELSE LET s == TypesOfDepth(d - 1)
         IN  s \cup {FnT(a, b) : a \in s, b \in s}

Types == TypesOfDepth(MaxTypeDepth)

InitUnify ==
    /\ expr = Id("x")
    /\ flags = FlagsAll
    /\ vars = 0
    /\ scopes = <<>>
    /\ stack = <<>>
    /\ minted = <<>>
    /\ instLog = <<>>
    /\ nschemes = 0
    /\ fatal = FALSE
    /\ \E t1 \in Types, t2 \in Types :
          uni = [UniIdle EXCEPT !.pc = "start", !.t1 = t1, !.t2 = t2]

\* let mut unifier = HashMap::new(); t1.unify(&t2, &mut unifier)
UnifyCall ==
    /\ uni.pc = "start"
    /\ LET r == Unify(uni.t1, uni.t2, EmptyMap)
       IN  uni' = [uni EXCEPT !.pc = "unified", !.ok = r.ok, !.u = r.u]
    /\ UNCHANGED <<expr, flags, vars, scopes, stack, minted, instLog, nschemes, fatal>>

\* t1.subst(&unifier); t2.subst(&unifier)
SubstCall ==
    /\ uni.pc = "unified"
    /\ uni.ok
    /\ uni' = [uni EXCEPT !.pc = "done", !.s1 = Subst(uni.t1, uni.u),
                          !.s2 = Subst(uni.t2, uni.u)]
    /\ UNCHANGED <<expr, flags, vars, scopes, stack, minted, instLog, nschemes, fatal>>

NextUnify ==
    \/ UnifyCall
    \/ SubstCall

SpecUnify == InitUnify /\ [][NextUnify]_vars_all

(***************************************************************************)
(* Properties.                                                             *)
(***************************************************************************)
NoDup(seq) == \A i, j \in DOMAIN seq : i # j => seq[i] # seq[j]
Range(seq) == {seq[i] : i \in DOMAIN seq}

\* C1: during one pass the counter context.vars never decreases from one
\* state to the next, and fresh() never returns an index it returned before
\* (minted lists every index fresh() returned, in order).
C1_CounterNeverReused == [][vars' >= vars /\ NoDup(minted')]_vars_all

\* C2: whenever a call of infer returns, Ok or Err, the scope stack is as
\* deep as it was when that call started.
C2_ScopeDepthRestored ==
    \A i \in DOMAIN stack :
        stack[i].pc = "ret" => Len(scopes) = Len(stack[i].scopes0)

\* C3: two lookups of the same stored scheme with a non-empty generalized
\* set never mint a common variable.
C3_InstantiationsDisjoint ==
    \A i, j \in DOMAIN instLog :
        (i < j /\ instLog[i].sid = instLog[j].sid /\ instLog[i].minted # <<>>)
            => Range(instLog[i].minted) \cap Range(instLog[j].minted) = {}

\* C4: the scheme a Let binds its name to has the variables minted for
\* params as generalized set when flags.polymorphic_let is true, and an
\* empty generalized set when it is false.
C4_FlagControlsGeneralization ==
    \A i \in DOMAIN stack :
        (stack[i].e[1] = "Let" /\ stack[i].pc = "body")
            => LET own == scopes[Len(stack[i].scopes0) + 1]
               IN  /\ stack[i].e[2] \in DOMAIN own
                   /\ own[stack[i].e[2]].bounds =
                          IF flags.polymorphic_let THEN stack[i].bounds ELSE <<>>

\* C5 as stated: let id = x -> x; id id from a fresh context with
\* let-polymorphism enabled returns Ok(Fn(Var(0), Fn(Var(1), Var(1)))).
C5_IdIdOriginal ==
    (expr = TreeIdId /\ flags = FlagsAll /\ Done)
        => stack[1].result = Ok(FnT(Var(0), FnT(Var(1), Var(1))))

\* C5 amended: let id = x -> x; id id from a fresh context with
\* let-polymorphism enabled returns Ok(Fn(Var(0), Var(0))), and both Id(id)
\* lookups of the body receive the same type Fn(Var(0), Var(0)).
C5_IdIdAmended ==
    (expr = TreeIdId /\ flags = FlagsAll /\ Done)
        => /\ stack[1].result = Ok(FnT(Var(0), Var(0)))
           /\ Len(instLog) = 3
           /\ \A i \in {2, 3} : /\ instLog[i].id = "id"
                                /\ instLog[i].ty = FnT(Var(0), Var(0))

C5_Witness == expr = TreeIdId /\ flags = FlagsAll /\ Done

\* C6: when t1.unify(t2, u) with u initially empty returns Ok, subst(u)
\* applied to t1 and to t2 gives structurally equal types.
C6_UnifyMakesEqual == uni.pc = "done" => uni.s1 = uni.s2

\* C7: when the callee of a Call has returned Ok with a Var type, the next
\* step is the return of the Call with Err(ExpectedFn): no call of infer on
\* the argument is made, and the counter, the scope stack and the record of
\* minted variables and lookups are those left by the callee.
CalleeIsVar ==
    /\ Returned("Call", "f")
    /\ Top.result.tag = "Ok"
    /\ Top.result.ty[1] = "Var"

C7_NonFnCalleeShortCircuits ==
    [][CalleeIsVar =>
          /\ Len(stack') = Len(stack) - 1
          /\ stack'[Len(stack')].pc = "ret"
          /\ stack'[Len(stack')].result = Err("ExpectedFn")
          /\ vars' = vars
          /\ scopes' = scopes
          /\ minted' = minted
          /\ instLog' = instLog]_vars_all

\* a Call has returned ExpectedFn: its callee is a bound name and its
\* argument a name that is bound nowhere
C7_Witness ==
    /\ Len(stack) >= 1
    /\ Top.pc = "ret"
    /\ Top.e[1] = "Call"
    /\ Top.result = Err("ExpectedFn")
    /\ Top.e[2][1] = "Id"
    /\ Lookup(scopes, Top.e[2][2]).found
    /\ Top.e[3][1] = "Id"
    /\ ~Lookup(scopes, Top.e[3][2]).found

\* C8: when the inference of a Fn or Let returns Ok, every name resolves as
\* it did when that inference started (the same scheme, or Undefined); and
\* y -> let id = x -> x; id x gives Err(Undefined).
C8_BindingsScopeLocal ==
    /\ \A i \in DOMAIN stack :
          (stack[i].pc = "ret" /\ stack[i].e[1] \in {"Fn", "Let"}
               /\ stack[i].result.tag = "Ok")
              => \A n \in AllNames :
                    Lookup(scopes, n) = Lookup(stack[i].scopes0, n)
    /\ (expr = TreeUndefined2 /\ Done) => stack[1].result = Err("Undefined")

\* a Let has returned Ok: its name shadowed an outer binding, and one of its
\* params is bound nowhere outside
C8_Witness ==
    /\ Len(stack) >= 1
    /\ Top.pc = "ret"
    /\ Top.e[1] = "Let"
    /\ Top.result.tag = "Ok"
    /\ Lookup(Top.scopes0, Top.e[2]).found
    /\ \E p \in Range(Top.e[3]) : ~Lookup(Top.scopes0, p).found

\* C9: while the value of a Let is inferred, the scope the name will be
\* bound in is empty and the scope above it holds the params; when the
\* inference of value starts, the name resolves to the param of that name
\* or as it did before the Let, so a value Id(name) gives Undefined exactly
\* when there is no such binding; when the inference of body starts, the
\* name resolves to the scheme just built.
C9_NameInvisibleInValue ==
    \A i \in DOMAIN stack :
        stack[i].e[1] = "Let" =>
            LET fr == stack[i]
                key == fr.e[2]
                base == Len(fr.scopes0)
                outer == Lookup(fr.scopes0, key)
                isParam == key \in Range(fr.e[3])
            IN  /\ fr.pc = "value" =>
                      /\ Len(scopes) >= base + 2
                      /\ SubSeq(scopes, 1, base) = fr.scopes0
                      /\ scopes[base + 1] = EmptyMap
                      /\ DOMAIN scopes[base + 2] = Range(fr.e[3])
                /\ (fr.pc = "value" /\ stack[i + 1].pc = "start") =>
                      Lookup(scopes, key) =
                          IF isParam
                          THEN [found |-> TRUE, scheme |-> scopes[base + 2][key]]
                          ELSE outer
                /\ (fr.pc = "value" /\ stack[i + 1].pc = "ret"
                        /\ fr.e[4] = Id(key)) =>
                      (stack[i + 1].result = Err("Undefined"))
                          <=> ~(isParam \/ outer.found)
                /\ (fr.pc = "body" /\ stack[i + 1].pc = "start") =>
                      /\ Lookup(scopes, key).found
                      /\ Lookup(scopes, key).scheme.sid = nschemes
                      /\ Lookup(scopes, key).scheme.bounds = fr.bounds

\* the value of a Let is Id(name), and it has returned Err(Undefined)
C9_Witness ==
    /\ Len(stack) >= 2
    /\ Parent.e[1] = "Let"
    /\ Parent.pc = "value"
    /\ Top.e = Id(Parent.e[2])
    /\ Top.pc = "ret"
    /\ Top.result = Err("Undefined")

\* C10: the inference of Fn(x, Id(x)) returns Ok(Fn(Var(n), Var(n))), n the
\* index minted for x on entry (the counter's value on entry); from a fresh
\* context n = 0.
C10_IdentFnSameVariable ==
    /\ \A i \in DOMAIN stack :
          (stack[i].pc = "ret" /\ stack[i].e[1] = "Fn"
               /\ stack[i].e[3] = Id(stack[i].e[2]))
              => /\ stack[i].k = stack[i].vars0
                 /\ stack[i].result = Ok(FnT(Var(stack[i].k), Var(stack[i].k)))
    /\ (expr = IdentFn /\ Done) => stack[1].result = Ok(FnT(Var(0), Var(0)))

\* Fn(x, Id(x)) has returned in a context with open scopes and a counter
\* that has advanced
C10_Witness ==
    /\ Len(stack) >= 1
    /\ Top.pc = "ret"
    /\ Top.e[1] = "Fn"
    /\ Top.e[3] = Id(Top.e[2])
    /\ Top.vars0 > 0
    /\ Top.scopes0 # <<>>
    /\ Top.result.tag = "Ok"

\* e is let n = p -> p; n a, for some names n, p and argument a
IsIdentApply(e) ==
    /\ e[1] = "Let"
    /\ e[3] = <<>>
    /\ e[4][1] = "Fn"
    /\ e[4][3] = Id(e[4][2])
    /\ e[5][1] = "Call"
    /\ e[5][2] = Id(e[2])

\* C11: in let id = x -> x; id a, when the argument a has been inferred Ok
\* with type T the Call returns Ok(T); y -> let id = x -> x; id y infers to
\* Fn(Var(0), Var(0)).
C11_IdentityApplication ==
    /\ \A i \in DOMAIN stack :
          (i >= 2 /\ stack[i].e[1] = "Call" /\ stack[i].pc = "ret"
               /\ stack[i].x_ty # NoType
               /\ stack[i - 1].pc = "body" /\ IsIdentApply(stack[i - 1].e))
              => stack[i].result = Ok(stack[i].x_ty)
    /\ (expr = TreeIdentityApplication /\ Done)
          => stack[1].result = Ok(FnT(Var(0), Var(0)))

\* the Call of a let-bound identity has returned, its argument of a Fn type
\* that is not the type of the identity itself
C11_Witness ==
    /\ Len(stack) >= 2
    /\ Top.e[1] = "Call"
    /\ Top.pc = "ret"
    /\ Parent.pc = "body"
    /\ IsIdentApply(Parent.e)
    /\ Top.x_ty # NoType
    /\ Top.x_ty[1] = "Fn"
    /\ Top.x_ty # Parent.ty

\* C12: let id = x -> x; id id under a chain of enclosing Fn binders returns
\* Ok(Fn(Var(a), Var(a))) with a different from the variable of every
\* enclosing Fn parameter; y -> let id = x -> x; id id infers to
\* Fn(Var(0), Fn(Var(1), Var(1))).
C12_IdentityOfIdentity ==
    /\ \A i \in DOMAIN stack :
          (stack[i].e = TreeIdId /\ stack[i].pc = "ret"
               /\ \A j \in 1..(i - 1) : stack[j].e[1] = "Fn")
              => LET r == stack[i].result
                 IN  /\ r.tag = "Ok"
                     /\ r.ty[1] = "Fn"
                     /\ r.ty[2][1] = "Var"
                     /\ r.ty[3] = r.ty[2]
                     /\ \A j \in 1..(i - 1) : stack[j].k # r.ty[2][2]
    /\ (expr = TreeIdentityIdentity /\ Done)
          => stack[1].result = Ok(FnT(Var(0), FnT(Var(1), Var(1))))

\* let id = x -> x; id id has returned under two enclosing Fn binders
C12_Witness ==
    /\ Len(stack) = 3
    /\ Top.e = TreeIdId
    /\ Top.pc = "ret"
    /\ \A j \in 1..2 : stack[j].e[1] = "Fn"

\* C13: let name = value; name (no params) returns exactly the type the
\* inference of value returned; let id = x -> x; id from a fresh context
\* gives Fn(Var(0), Var(0)).
C13_LetPassThrough ==
    /\ \A i \in DOMAIN stack :
          (stack[i].e[1] = "Let" /\ stack[i].e[3] = <<>>
               /\ stack[i].e[5] = Id(stack[i].e[2])
               /\ stack[i].pc = "ret" /\ stack[i].ty # NoType)
              => stack[i].result = Ok(stack[i].ty)
    /\ (expr = TreeLet /\ Done) => stack[1].result = Ok(FnT(Var(0), Var(0)))

\* such a Let has returned a Fn type, in a context where its name was
\* already bound
C13_Witness ==
    /\ Len(stack) >= 1
    /\ Top.e[1] = "Let"
    /\ Top.e[3] = <<>>
    /\ Top.e[5] = Id(Top.e[2])
    /\ Top.pc = "ret"
    /\ Top.ty # NoType
    /\ Top.ty[1] = "Fn"
    /\ Lookup(Top.scopes0, Top.e[2]).found

\* Var(v) occurs in ty
RECURSIVE Occurs(_, _)
Occurs(v, ty) ==
    IF ty[1] = "Var" THEN ty[2] = v
    ELSE Occurs(v, ty[2]) \/ Occurs(v, ty[3])

\* C14: no unifier built by a Call during inference from a fresh context
\* binds a variable v to a type in which Var(v) occurs.
C14_UnifierAcyclic ==
    \A i \in DOMAIN stack :
        \A v \in DOMAIN stack[i].unifier : ~Occurs(v, stack[i].unifier[v])

\* C15: unify of a pair of which one side, left or right, is a Var returns Ok.
C15_VarSideSucceeds ==
    (uni.pc = "unified" /\ (uni.t1[1] = "Var" \/ uni.t2[1] = "Var")) => uni.ok

\* C16: when the Fn rule has just bound param to Var(v), v occurs in the
\* type of no other scheme bound in an open scope.
C16_FnParamFresh ==
    \A i \in DOMAIN stack :
        (i < Len(stack) /\ stack[i].e[1] = "Fn" /\ stack[i].pc = "body"
             /\ stack[i + 1].pc = "start" /\ i + 1 = Len(stack))
            => \A l \in DOMAIN scopes : \A n \in DOMAIN scopes[l] :
                  (l = Len(scopes) /\ n = stack[i].e[2])
                      \/ ~Occurs(stack[i].k, scopes[l][n].ty)

\* C17: a step of the Id arm or of the Call arm leaves context.scopes
\* unchanged; in let id = x -> x, first = x y -> x; first (id id) (id first)
\* every lookup of id sees the same stored scheme, and the result is
\* Ok(Fn(Var(0), Var(0))).
IdOrCallStep ==
    \/ Running /\ Top.e[1] \in {"Id", "Call"}
    \/ Returned("Call", "f")
    \/ Returned("Call", "x")

C17_LookupsAndCallsKeepSchemes ==
    [][/\ IdOrCallStep => scopes' = scopes
       /\ (expr' = TreePolymorphicId /\ Done')
             => /\ stack'[1].result = Ok(FnT(Var(0), Var(0)))
                /\ \A i, j \in DOMAIN instLog' :
                      (instLog'[i].id = "id" /\ instLog'[j].id = "id")
                          => /\ instLog'[i].sid = instLog'[j].sid
                             /\ instLog'[i].ty = instLog'[j].ty]_vars_all

\* first (id id) (id first) has been inferred: id was looked up three times
C17_Witness ==
    /\ expr = TreePolymorphicId
    /\ Done
    /\ stack[1].result.tag = "Ok"
    /\ Cardinality({i \in DOMAIN instLog : instLog[i].id = "id"}) = 3

\* C18: Context::exit and Context::insert are never executed with no scope
\* open (fatal records such an execution).
C18_NeverFatal == ~fatal

\* a Let with params has returned Ok: its inserts and exits have run, the
\* last exit popping the last open scope
C18_Witness ==
    /\ Done
    /\ expr[1] = "Let"
    /\ expr[3] # <<>>
    /\ stack[1].result.tag = "Ok"
    /\ scopes = <<>>

====
